---- MODULE Spec2Model ----
(***************************************************************************)
(* A model of deal.II's ReferenceCell (source/grid/reference_cell.cc):     *)
(* the format index-translation tables, the external type codes, the VTK   *)
(* Lagrange node numbering, the memoized nodal quadratures and the stream  *)
(* operators of the cell tag.                                              *)
(***************************************************************************)
EXTENDS Integers, Sequences, FiniteSets, TLC

VARIABLES
  debug,    \* TRUE: a debug build (Assert is checked); FALSE: a release build
  op,       \* the member function of the last call ("none" before any call)
  kind,     \* this->kind of the object the last call was made on
  arg,      \* the index argument of the last call
  ret,      \* what the last call produced: [val |-> unsigned, exc |-> name]
  node,     \* node_indices of the last vtk_lexicographic_to_node_index call
  npd,      \* nodes_per_direction of that call
  legacy,   \* legacy_format of that call
  out,      \* a std::ostream: [text |-> characters written, fail |-> fail()]
  inp,      \* a std::istream: [text, rpos |-> characters consumed, fail]
  cell,     \* the tag of the ReferenceCell that operator>> reads into
  wrote,    \* the tags whose text makes up the stream, in the order written
  guard,    \* per function-local static quadrature: "uninit", "busy", "done"
  storage,  \* per static quadrature: <<>> while raw memory, <<object>> once constructed
  runs,     \* per static quadrature: how often create_quadrature ran for it
  thread,   \* per thread: [pc, kind |-> cell of the call, ref |-> static]
  mapping   \* per static linear mapping: <<>> until constructed, then <<object>>

callVars == <<op, kind, arg, ret>>

lexVars == <<node, npd, legacy>>

ioVars == <<out, inp, cell, wrote>>

quadVars == <<guard, storage, runs, thread, mapping>>

-----------------------------------------------------------------------------
(* Bounds of the model *)

\* index arguments are drawn from 0 .. MaxIndex
MaxIndex == 9

\* every entry of nodes_per_direction is drawn from 1 .. MaxNodesPerDirection
MaxNodesPerDirection == 3

\* at most MaxWrites tags are written to a stream before it is read back
MaxWrites == 1

\* the number of threads that call nodal_type_quadrature()
NThreads == 2

-----------------------------------------------------------------------------
(* The tag values and the per-kind attributes of include/deal.II/grid/     *)
(* reference_cell.h                                                        *)

Vertex == 0
Line == 1
Triangle == 2
Quadrilateral == 3
Tetrahedron == 4
Pyramid == 5
Wedge == 6
Hexahedron == 7
\* static_cast<std::uint8_t>(-1)
Invalid == 255

\* numbers::invalid_unsigned_int, static_cast<unsigned int>(-1): the all-ones
\* word, written here as the integer it is cast from
invalid_unsigned_int == -1

ConcreteKinds ==
  {Vertex, Line, Triangle, Quadrilateral, Tetrahedron, Pyramid, Wedge, Hexahedron}

Kinds == ConcreteKinds \cup {Invalid}

n_vertices(k) ==
  CASE k = Vertex -> 1
    [] k = Line -> 2
    [] k = Triangle -> 3
    [] k = Quadrilateral -> 4
    [] k = Tetrahedron -> 4
    [] k = Pyramid -> 5
    [] k = Wedge -> 6
    [] k = Hexahedron -> 8
    [] OTHER -> invalid_unsigned_int

n_faces(k) ==
  CASE k = Vertex -> 0
    [] k = Line -> 2
    [] k = Triangle -> 3
    [] k = Quadrilateral -> 4
    [] k = Tetrahedron -> 4
    [] k = Pyramid -> 5
    [] k = Wedge -> 5
    [] k = Hexahedron -> 6
    [] OTHER -> invalid_unsigned_int

get_dimension(k) ==
  CASE k = Vertex -> 0
    [] k = Line -> 1
    [] k \in {Triangle, Quadrilateral} -> 2
    [] k \in {Tetrahedron, Pyramid, Wedge, Hexahedron} -> 3
    [] OTHER -> invalid_unsigned_int

is_hyper_cube(k) == k \in {Vertex, Line, Quadrilateral, Hexahedron}

is_simplex(k) == k \in {Vertex, Line, Triangle, Tetrahedron}

-----------------------------------------------------------------------------
(* Results of a call *)

Returned(v) == [val |-> v, exc |-> "none"]

Thrown(e) == [val |-> invalid_unsigned_int, exc |-> e]

\* What a read past the end of a std::array may deliver (undefined behaviour).
UndefinedRead == {0, 1, invalid_unsigned_int}

\* std::array<unsigned int, N>::operator[] on a table of N entries.
ArrayRead(table, n) ==
  IF n < Len(table) THEN {Returned(table[n + 1])}
  ELSE {Returned(v) : v \in UndefinedRead}

\* the Assert is missing: every build runs on to the return
AssertFalse_bad(dbg, fallthrough) == {Returned(fallthrough)}

\* Assert(false, ExcNotImplemented()) followed by the statement after it:
\* the debug build aborts, the release build runs on to the return.
AssertFalse(dbg, fallthrough) ==
  IF dbg THEN {Thrown("ExcNotImplemented")} ELSE {Returned(fallthrough)}

\* the index equal to the count is let through
AssertIndexRange_bad(dbg, k, index, range) ==
  IF ~dbg THEN "none"
  ELSE IF k \notin ConcreteKinds THEN "ExcNotImplemented"
  ELSE IF index <= range THEN "none"
  ELSE "ExcIndexRange"

\* AssertIndexRange(index, n_vertices()) and AssertIndexRange(index, n_faces()),
\* range being that count for kind k: only the debug build evaluates it; the
\* count of a tag that is no concrete kind fails by itself.
AssertIndexRange(dbg, k, index, range) ==
  IF ~dbg THEN "none"
  ELSE IF k \notin ConcreteKinds THEN "ExcNotImplemented"
  ELSE IF index < range THEN "none"
  ELSE "ExcIndexRange"

-----------------------------------------------------------------------------
(* VTKCellType *)

VTK_VERTEX == 1
VTK_LINE == 3
VTK_TRIANGLE == 5
VTK_QUAD == 9
VTK_TETRA == 10
VTK_HEXAHEDRON == 12
VTK_WEDGE == 13
VTK_PYRAMID == 14
VTK_QUADRATIC_EDGE == 21
VTK_QUADRATIC_TRIANGLE == 22
VTK_QUADRATIC_QUAD == 23
VTK_QUADRATIC_TETRA == 24
VTK_QUADRATIC_HEXAHEDRON == 25
VTK_QUADRATIC_WEDGE == 26
VTK_QUADRATIC_PYRAMID == 27
VTK_LAGRANGE_CURVE == 68
VTK_LAGRANGE_TRIANGLE == 69
VTK_LAGRANGE_QUADRILATERAL == 70
VTK_LAGRANGE_TETRAHEDRON == 71
VTK_LAGRANGE_HEXAHEDRON == 72
VTK_LAGRANGE_WEDGE == 73
VTK_LAGRANGE_PYRAMID == 74
VTK_INVALID == invalid_unsigned_int

-----------------------------------------------------------------------------
(* ReferenceCell::to_string *)

\* the Invalid tag is left to the default label
to_string_bad(dbg, k) ==
  CASE k = Vertex -> {Returned("Vertex")}
    [] k = Line -> {Returned("Line")}
    [] k = Triangle -> {Returned("Tri")}
    [] k = Quadrilateral -> {Returned("Quad")}
    [] k = Tetrahedron -> {Returned("Tet")}
    [] k = Pyramid -> {Returned("Pyramid")}
    [] k = Wedge -> {Returned("Wedge")}
    [] k = Hexahedron -> {Returned("Hex")}
    [] OTHER -> AssertFalse(dbg, "Invalid")

to_string(dbg, k) ==
  CASE k = Vertex -> {Returned("Vertex")}
    [] k = Line -> {Returned("Line")}
    [] k = Triangle -> {Returned("Tri")}
    [] k = Quadrilateral -> {Returned("Quad")}
    [] k = Tetrahedron -> {Returned("Tet")}
    [] k = Pyramid -> {Returned("Pyramid")}
    [] k = Wedge -> {Returned("Wedge")}
    [] k = Hexahedron -> {Returned("Hex")}
    [] k = Invalid -> {Returned("Invalid")}
    [] OTHER -> AssertFalse(dbg, "Invalid")

-----------------------------------------------------------------------------
(* ReferenceCell::exodusii_vertex_to_deal_vertex *)

\* the array of the Hexahedron lists vertex 6 twice and vertex 7 never
exodus_vertex_table_bad(k) ==
  CASE k = Quadrilateral -> <<0, 1, 3, 2>>
    [] k = Hexahedron -> <<0, 1, 3, 2, 4, 5, 6, 6>>
    [] k = Wedge -> <<2, 1, 0, 5, 4, 3>>
    [] k = Pyramid -> <<0, 1, 3, 2, 4>>
    [] OTHER -> <<>>

\* the exodus_to_deal array of the case taken; <<>> where the case has none
exodus_vertex_table(k) ==
  CASE k = Quadrilateral -> <<0, 1, 3, 2>>
    [] k = Hexahedron -> <<0, 1, 3, 2, 4, 5, 7, 6>>
    [] k = Wedge -> <<2, 1, 0, 5, 4, 3>>
    [] k = Pyramid -> <<0, 1, 3, 2, 4>>
    [] OTHER -> <<>>

exodusii_vertex_to_deal_vertex(dbg, k, vertex_n) ==
  LET check == AssertIndexRange(dbg, k, vertex_n, n_vertices(k))
  IN
  IF check # "none"
  THEN {Thrown(check)}
  ELSE CASE k \in {Line, Triangle} -> {Returned(vertex_n)}
         [] k \in {Quadrilateral, Hexahedron, Wedge, Pyramid} ->
              ArrayRead(exodus_vertex_table(k), vertex_n)
         [] k = Tetrahedron -> {Returned(vertex_n)}
         [] OTHER -> AssertFalse(dbg, invalid_unsigned_int)

-----------------------------------------------------------------------------
(* ReferenceCell::exodusii_face_to_deal_face *)

\* the last two entries of the Wedge array exchanged
exodus_face_table_bad(k) ==
  CASE k = Quadrilateral -> <<2, 1, 3, 0>>
    [] k = Tetrahedron -> <<1, 3, 2, 0>>
    [] k = Hexahedron -> <<2, 1, 3, 0, 4, 5>>
    [] k = Wedge -> <<3, 4, 2, 0, 0, 1>>
    [] k = Pyramid -> <<3, 2, 4, 1, 0>>
    [] OTHER -> <<>>

\* The Wedge array is declared with 6 entries and 5 initializers: the sixth
\* entry is value-initialized to 0.
exodus_face_table(k) ==
  CASE k = Quadrilateral -> <<2, 1, 3, 0>>
    [] k = Tetrahedron -> <<1, 3, 2, 0>>
    [] k = Hexahedron -> <<2, 1, 3, 0, 4, 5>>
    [] k = Wedge -> <<3, 4, 2, 0, 1, 0>>
    [] k = Pyramid -> <<3, 2, 4, 1, 0>>
    [] OTHER -> <<>>

exodusii_face_to_deal_face(dbg, k, face_n) ==
  LET check == AssertIndexRange(dbg, k, face_n, n_faces(k))
  IN
  IF check # "none"
  THEN {Thrown(check)}
  ELSE CASE k = Vertex -> {Returned(0)}
         [] k \in {Line, Triangle} -> {Returned(face_n)}
         [] k \in {Quadrilateral, Tetrahedron, Hexahedron, Wedge, Pyramid} ->
              ArrayRead(exodus_face_table(k), face_n)
         [] OTHER -> AssertFalse(dbg, invalid_unsigned_int)

-----------------------------------------------------------------------------
(* ReferenceCell::unv_vertex_to_deal_vertex *)

\* the array of the Hexahedron ends in 1 instead of 0
unv_vertex_table_bad(k) ==
  CASE k = Quadrilateral -> <<1, 0, 2, 3>>
    [] k = Hexahedron -> <<6, 7, 5, 4, 2, 3, 1, 1>>
    [] OTHER -> <<>>

\* the unv_to_deal array of the case taken; <<>> where the case has none
unv_vertex_table(k) ==
  CASE k = Quadrilateral -> <<1, 0, 2, 3>>
    [] k = Hexahedron -> <<6, 7, 5, 4, 2, 3, 1, 0>>
    [] OTHER -> <<>>

unv_vertex_to_deal_vertex(dbg, k, vertex_n) ==
  LET check == AssertIndexRange(dbg, k, vertex_n, n_vertices(k))
  IN
  IF check # "none"
  THEN {Thrown(check)}
  ELSE CASE k = Line -> {Returned(vertex_n)}
         [] k \in {Quadrilateral, Hexahedron} ->
              ArrayRead(unv_vertex_table(k), vertex_n)
         [] OTHER -> AssertFalse(dbg, invalid_unsigned_int)

-----------------------------------------------------------------------------
(* ReferenceCell::vtk_vertex_to_deal_vertex *)

\* the top vertices of the Hexahedron are left in VTK order
vtk_vertex_table_bad(k) ==
  CASE k = Quadrilateral -> <<0, 1, 3, 2>>
    [] k = Pyramid -> <<0, 1, 3, 2, 4>>
    [] k = Hexahedron -> <<0, 1, 3, 2, 4, 5, 6, 7>>
    [] OTHER -> <<>>

vtk_vertex_table(k) ==
  CASE k = Quadrilateral -> <<0, 1, 3, 2>>
    [] k = Pyramid -> <<0, 1, 3, 2, 4>>
    [] k = Hexahedron -> <<0, 1, 3, 2, 4, 5, 7, 6>>
    [] OTHER -> <<>>

vtk_vertex_to_deal_vertex(dbg, k, vertex_index) ==
  LET check == AssertIndexRange(dbg, k, vertex_index, n_vertices(k))
  IN
  IF check # "none"
  THEN {Thrown(check)}
  ELSE CASE k \in {Vertex, Line, Triangle, Tetrahedron, Wedge} ->
              {Returned(vertex_index)}
         [] k \in {Quadrilateral, Pyramid, Hexahedron} ->
              ArrayRead(vtk_vertex_table(k), vertex_index)
         [] OTHER -> AssertFalse(dbg, invalid_unsigned_int)

-----------------------------------------------------------------------------
(* ReferenceCell::vtk_linear_type, vtk_quadratic_type, vtk_lagrange_type,  *)
(* gmsh_element_type                                                       *)

vtk_linear_type(dbg, k) ==
  CASE k = Vertex -> {Returned(VTK_VERTEX)}
    [] k = Line -> {Returned(VTK_LINE)}
    [] k = Triangle -> {Returned(VTK_TRIANGLE)}
    [] k = Quadrilateral -> {Returned(VTK_QUAD)}
    [] k = Tetrahedron -> {Returned(VTK_TETRA)}
    [] k = Pyramid -> {Returned(VTK_PYRAMID)}
    [] k = Wedge -> {Returned(VTK_WEDGE)}
    [] k = Hexahedron -> {Returned(VTK_HEXAHEDRON)}
    [] k = Invalid -> {Returned(VTK_INVALID)}
    [] OTHER -> AssertFalse(dbg, VTK_INVALID)

vtk_quadratic_type(dbg, k) ==
  CASE k = Vertex -> {Returned(VTK_VERTEX)}
    [] k = Line -> {Returned(VTK_QUADRATIC_EDGE)}
    [] k = Triangle -> {Returned(VTK_QUADRATIC_TRIANGLE)}
    [] k = Quadrilateral -> {Returned(VTK_QUADRATIC_QUAD)}
    [] k = Tetrahedron -> {Returned(VTK_QUADRATIC_TETRA)}
    [] k = Pyramid -> {Returned(VTK_QUADRATIC_PYRAMID)}
    [] k = Wedge -> {Returned(VTK_QUADRATIC_WEDGE)}
    [] k = Hexahedron -> {Returned(VTK_QUADRATIC_HEXAHEDRON)}
    [] k = Invalid -> {Returned(VTK_INVALID)}
    [] OTHER -> AssertFalse(dbg, VTK_INVALID)

vtk_lagrange_type(dbg, k) ==
  CASE k = Vertex -> {Returned(VTK_VERTEX)}
    [] k = Line -> {Returned(VTK_LAGRANGE_CURVE)}
    [] k = Triangle -> {Returned(VTK_LAGRANGE_TRIANGLE)}
    [] k = Quadrilateral -> {Returned(VTK_LAGRANGE_QUADRILATERAL)}
    [] k = Tetrahedron -> {Returned(VTK_LAGRANGE_TETRAHEDRON)}
    [] k = Pyramid -> {Returned(VTK_LAGRANGE_PYRAMID)}
    [] k = Wedge -> {Returned(VTK_LAGRANGE_WEDGE)}
    [] k = Hexahedron -> {Returned(VTK_LAGRANGE_HEXAHEDRON)}
    [] k = Invalid -> {Returned(VTK_INVALID)}
    [] OTHER -> AssertFalse(dbg, VTK_INVALID)

\* the Pyramid is given the code of the Wedge
gmsh_element_type_bad(dbg, k) ==
  CASE k = Vertex -> {Returned(15)}
    [] k = Line -> {Returned(1)}
    [] k = Triangle -> {Returned(2)}
    [] k = Quadrilateral -> {Returned(3)}
    [] k = Tetrahedron -> {Returned(4)}
    [] k = Pyramid -> {Returned(6)}
    [] k = Wedge -> {Returned(6)}
    [] k = Hexahedron -> {Returned(5)}
    [] OTHER -> AssertFalse(dbg, invalid_unsigned_int)

\* the switch over this->kind of gmsh_element_type
gmsh_element_type(dbg, k) ==
  CASE k = Vertex -> {Returned(15)}
    [] k = Line -> {Returned(1)}
    [] k = Triangle -> {Returned(2)}
    [] k = Quadrilateral -> {Returned(3)}
    [] k = Tetrahedron -> {Returned(4)}
    [] k = Pyramid -> {Returned(7)}
    [] k = Wedge -> {Returned(6)}
    [] k = Hexahedron -> {Returned(5)}
    [] OTHER -> AssertFalse(dbg, invalid_unsigned_int)

-----------------------------------------------------------------------------
(* ReferenceCell::vtk_lexicographic_to_node_index<dim>                     *)

\* The arithmetic is in unsigned int. With every entry of nodes_per_direction
\* at least 1 and the node inside the grid, which is what the calls below
\* draw, every subexpression is a natural number far below 2^32, so that the
\* unsigned operations are the integer ones.

\* vtk_lexicographic_to_node_index<0> and <1>
vtk_lexicographic_to_node_index01(dbg) == AssertFalse(dbg, 0)

\* (ibdy ? 1 : 0) + (jbdy ? 1 : 0) [+ (kbdy ? 1 : 0)]
nbdy(idx, n) ==
  LET onBdy(d) == idx[d] = 0 \/ idx[d] = n[d]
      count[d \in 0 .. Len(idx)] ==
        IF d = 0 THEN 0 ELSE count[d - 1] + (IF onBdy(d) THEN 1 ELSE 0)
  IN  count[Len(idx)]

\* the corners (n1, n2) and (0, n2) exchanged
corner_index_bad(i, j) ==
  IF i # 0 THEN (IF j # 0 THEN 3 ELSE 1) ELSE (IF j # 0 THEN 2 ELSE 0)

\* the corner expression of lines 523 and 586
corner_index(i, j) ==
  IF i # 0 THEN (IF j # 0 THEN 2 ELSE 1) ELSE (IF j # 0 THEN 3 ELSE 0)

\* the left edge is moved past n1 - 1 + 2 (n2 - 1) nodes
lexicographic_to_node_index_2_bad(idx, n) ==
  LET i == idx[1]
      j == idx[2]
      ibdy == i = 0 \/ i = n[1]
      jbdy == j = 0 \/ j = n[2]
      nb == nbdy(idx, n)
      offset == 4
  IN  IF nb = 2 THEN corner_index(i, j)
      ELSE IF nb = 1 /\ ~ibdy
        THEN ((i - 1)
                 + (IF j # 0 THEN n[1] - 1 + n[2] - 1 ELSE 0)
                 + offset)
      ELSE IF nb = 1 /\ ~jbdy
        THEN ((j - 1)
                 + (IF i # 0 THEN n[1] - 1
                    ELSE n[1] - 1 + 2 * (n[2] - 1))
                 + offset)
      ELSE (offset + 2 * (n[1] - 1 + n[2] - 1)
               + (i - 1) + (n[1] - 1) * (j - 1))

\* the body of vtk_lexicographic_to_node_index<2> after its Assert
lexicographic_to_node_index_2(idx, n) ==
  LET i == idx[1]
      j == idx[2]
      ibdy == i = 0 \/ i = n[1]
      jbdy == j = 0 \/ j = n[2]
      nb == nbdy(idx, n)
      offset == 4
  IN  IF nb = 2 THEN corner_index(i, j)
      ELSE IF nb = 1 /\ ~ibdy
        THEN ((i - 1)
                 + (IF j # 0 THEN n[1] - 1 + n[2] - 1 ELSE 0)
                 + offset)
      ELSE IF nb = 1 /\ ~jbdy
        THEN ((j - 1)
                 + (IF i # 0 THEN n[1] - 1
                    ELSE 2 * (n[1] - 1) + n[2] - 1)
                 + offset)
      ELSE (offset + 2 * (n[1] - 1 + n[2] - 1)
               + (i - 1) + (n[1] - 1) * (j - 1))

vtk_lexicographic_to_node_index_2(dbg, k, idx, n) ==
  IF dbg /\ k # Quadrilateral
  THEN {Thrown("ExcNotImplemented")}
  ELSE {Returned(lexicographic_to_node_index_2(idx, n))}

\* the two orders are taken for each other
vertical_edge_block_bad(i, j, legacy_format) ==
  IF legacy_format
  THEN (IF i # 0 THEN (IF j # 0 THEN 2 ELSE 1) ELSE (IF j # 0 THEN 3 ELSE 0))
  ELSE (IF i # 0 THEN (IF j # 0 THEN 3 ELSE 1) ELSE (IF j # 0 THEN 2 ELSE 0))

\* the position of a vertical edge among the four, lines 618 to 627
vertical_edge_block(i, j, legacy_format) ==
  IF legacy_format
  THEN (IF i # 0 THEN (IF j # 0 THEN 3 ELSE 1) ELSE (IF j # 0 THEN 2 ELSE 0))
  ELSE (IF i # 0 THEN (IF j # 0 THEN 2 ELSE 1) ELSE (IF j # 0 THEN 3 ELSE 0))

\* the edges of the top face are offset by all twelve edges
horizontal_edge_index_bad(idx, n, offset) ==
  LET i == idx[1]
      j == idx[2]
      k == idx[3]
      ibdy == i = 0 \/ i = n[1]
      upper == IF k # 0 THEN 4 * (n[1] - 1 + n[2] - 1 + n[3] - 1) ELSE 0
  IN  IF ~ibdy
      THEN (i - 1)
           + (IF j # 0 THEN n[1] - 1 + n[2] - 1 ELSE 0)
           + upper + offset
      ELSE (j - 1)
           + (IF i # 0 THEN n[1] - 1 ELSE 2 * (n[1] - 1) + n[2] - 1)
           + upper + offset

\* the horizontal edges, lines 593 to 614
horizontal_edge_index(idx, n, offset) ==
  LET i == idx[1]
      j == idx[2]
      k == idx[3]
      ibdy == i = 0 \/ i = n[1]
      upper == IF k # 0 THEN 2 * (n[1] - 1 + n[2] - 1) ELSE 0
  IN  IF ~ibdy
      THEN (i - 1)
           + (IF j # 0 THEN n[1] - 1 + n[2] - 1 ELSE 0)
           + upper + offset
      ELSE (j - 1)
           + (IF i # 0 THEN n[1] - 1 ELSE 2 * (n[1] - 1) + n[2] - 1)
           + upper + offset

\* the face at i = n1 is not moved past the face at i = 0
face_index_bad(idx, n, offset) ==
  LET i == idx[1]
      j == idx[2]
      k == idx[3]
      ibdy == i = 0 \/ i = n[1]
      jbdy == j = 0 \/ j = n[2]
      offset_j == offset + 2 * (n[2] - 1) * (n[3] - 1)
      offset_k == offset_j + 2 * (n[3] - 1) * (n[1] - 1)
  IN  IF ibdy
      THEN (j - 1) + ((n[2] - 1) * (k - 1))
           + offset
      ELSE IF jbdy
      THEN (i - 1) + ((n[1] - 1) * (k - 1))
           + (IF j # 0 THEN (n[3] - 1) * (n[1] - 1) ELSE 0)
           + offset_j
      ELSE (i - 1) + ((n[1] - 1) * (j - 1))
           + (IF k # 0 THEN (n[1] - 1) * (n[2] - 1) ELSE 0)
           + offset_k

\* the faces, lines 632 to 658
face_index(idx, n, offset) ==
  LET i == idx[1]
      j == idx[2]
      k == idx[3]
      ibdy == i = 0 \/ i = n[1]
      jbdy == j = 0 \/ j = n[2]
      offset_j == offset + 2 * (n[2] - 1) * (n[3] - 1)
      offset_k == offset_j + 2 * (n[3] - 1) * (n[1] - 1)
  IN  IF ibdy
      THEN (j - 1) + ((n[2] - 1) * (k - 1))
           + (IF i # 0 THEN (n[2] - 1) * (n[3] - 1) ELSE 0)
           + offset
      ELSE IF jbdy
      THEN (i - 1) + ((n[1] - 1) * (k - 1))
           + (IF j # 0 THEN (n[3] - 1) * (n[1] - 1) ELSE 0)
           + offset_j
      ELSE (i - 1) + ((n[1] - 1) * (j - 1))
           + (IF k # 0 THEN (n[1] - 1) * (n[2] - 1) ELSE 0)
           + offset_k

\* lines 574 to 666 with the position of the vertical edge given
hex_node_index(idx, n, vertical_block) ==
  LET i == idx[1]
      j == idx[2]
      k == idx[3]
      ibdy == i = 0 \/ i = n[1]
      jbdy == j = 0 \/ j = n[2]
      nb == nbdy(idx, n)
      offset_edge == 8
      offset_vertical == offset_edge + 4 * (n[1] - 1) + 4 * (n[2] - 1)
      offset_face == offset_edge + 4 * (n[1] - 1 + n[2] - 1 + n[3] - 1)
      offset_body ==
        offset_face + 2 * ((n[2] - 1) * (n[3] - 1)
                           + (n[3] - 1) * (n[1] - 1)
                           + (n[1] - 1) * (n[2] - 1))
  IN  IF nb = 3 THEN corner_index(i, j) + (IF k # 0 THEN 4 ELSE 0)
      ELSE IF nb = 2 /\ (~ibdy \/ ~jbdy)
        THEN horizontal_edge_index(idx, n, offset_edge)
      ELSE IF nb = 2
        THEN (k - 1) + (n[3] - 1) * vertical_block + offset_vertical
      ELSE IF nb = 1 THEN face_index(idx, n, offset_face)
      ELSE offset_body + (i - 1)
           + (n[1] - 1) * ((j - 1) + (n[2] - 1) * (k - 1))

\* legacy_format reorders the corners as well as the vertical edges
lexicographic_to_node_index_3_bad(idx, n, legacy_format) ==
  IF nbdy(idx, n) = 3
  THEN vertical_edge_block(idx[1], idx[2], legacy_format)
       + (IF idx[3] # 0 THEN 4 ELSE 0)
  ELSE hex_node_index(idx, n,
                      vertical_edge_block(idx[1], idx[2], legacy_format))

\* the body of vtk_lexicographic_to_node_index<3> after its Assert
lexicographic_to_node_index_3(idx, n, legacy_format) ==
  hex_node_index(idx, n, vertical_edge_block(idx[1], idx[2], legacy_format))

vtk_lexicographic_to_node_index_3(dbg, k, idx, n, legacy_format) ==
  IF dbg /\ k # Hexahedron
  THEN {Thrown("ExcNotImplemented")}
  ELSE {Returned(lexicographic_to_node_index_3(idx, n, legacy_format))}

-----------------------------------------------------------------------------
(* ReferenceCell::get_nodal_type_quadrature<dim>                           *)

Threads == 1 .. NThreads

\* the branch of the if-chain of lines 223 to 244 that a kind takes
Branch(k) ==
  IF is_hyper_cube(k) THEN "hyper_cube"
  ELSE IF is_simplex(k) THEN "simplex"
  ELSE IF k = Pyramid THEN "pyramid"
  ELSE IF k = Wedge THEN "wedge"
  ELSE "dummy"

\* one static for the whole function template instead of one per branch
StaticOf_bad(dim, k) == <<dim, "quadrature">>

\* The object returned: each branch of each instantiation
\* get_nodal_type_quadrature<dim> has a function-local static of its own.
StaticOf(dim, k) == <<dim, Branch(k)>>

\* the statics that calls with the dimension of the cell reach
Statics == {StaticOf(get_dimension(k), k) : k \in ConcreteKinds}

\* reference_cell.vertex<dim>(v), as the v-th vertex of the cell
vertex(k, v) == [cell |-> k, vertex |-> v]

\* the lambda create_quadrature: a vector of n_vertices() points, entry v set
\* to vertex v, made into a Quadrature<dim>
create_quadrature(k) ==
  LET vertices == [v \in 1 .. n_vertices(k) |-> vertex(k, v - 1)]
  IN  [points |-> vertices]

\* an object of class type constructed as type(of(n)), or type(n) where of
\* is empty
Object(type, of, n) == [type |-> type, of |-> of, n |-> n]

\* The object get_default_linear_mapping<dim, spacedim> returns a reference
\* to: the function-local static of the branch, or the static data member
\* StaticMappingQ1<dim, spacedim>::mapping (hyper-cubes, and the return after
\* the if-chain).
LinearStaticOf(dim, k) ==
  IF Branch(k) \in {"simplex", "pyramid", "wedge"}
  THEN <<dim, Branch(k)>>
  ELSE <<dim, "StaticMappingQ1">>

\* the linear mappings that calls with the dimension of the cell reach
LinearStatics == {LinearStaticOf(get_dimension(k), k) : k \in ConcreteKinds}

\* a thread arriving at a static that another thread is initializing starts
\* an initialization of its own
AtStatic_bad(g) ==
  CASE g = "done" -> "ret"
    [] g = "uninit" -> "init"
    [] g = "busy" -> "init"

\* What a thread does on reaching the declaration of the static, lines 225,
\* 230, 235 and 240: it returns the object when the initialization is
\* complete, runs the initializer when none has begun, and waits when
\* another thread is running it.
AtStatic(g) ==
  CASE g = "done" -> "ret"
    [] g = "uninit" -> "init"
    [] g = "busy" -> "wait"

\* no thread is in a call
NoThreads ==
  thread = [t \in Threads |-> [pc |-> "idle", kind |-> Invalid, ref |-> <<>>]]

\* the state of the statics in the set quadratures and of the linear mappings
\* in the set mappings when the program starts: the function-local ones are
\* not initialized, the static data member StaticMappingQ1::mapping is
StaticsAtStart(quadratures, mappings) ==
  /\ guard = [s \in quadratures |-> "uninit"]
  /\ storage = [s \in quadratures |-> <<>>]
  /\ runs = [s \in quadratures |-> 0]
  /\ mapping = [s \in mappings |->
                  IF s[2] = "StaticMappingQ1"
                  THEN <<Object("StaticMappingQ1::mapping", "", 1)>>
                  ELSE <<>>]

NoQuadratures == StaticsAtStart(Statics, LinearStatics) /\ NoThreads

-----------------------------------------------------------------------------
(* The state before any call *)

vars ==
  <<debug, op, kind, arg, ret, node, npd, legacy, out, inp, cell, wrote,
    guard, storage, runs, thread, mapping>>

\* no member function has been called yet; a default-constructed
\* ReferenceCell holds the Invalid tag
NoCall == op = "none" /\ kind = Invalid /\ arg = 0 /\ ret = Returned(0)

NoLexCall == node = <<>> /\ npd = <<>> /\ legacy = FALSE

\* two empty streams in good state and a default-constructed cell to read into
NoStreams ==
  /\ out = [text |-> <<>>, fail |-> FALSE]
  /\ inp = [text |-> <<>>, rpos |-> 0, fail |-> FALSE]
  /\ cell = Invalid
  /\ wrote = <<>>

-----------------------------------------------------------------------------
(* Calls of the index translations and of the type codes *)

\* A call is made when the previous one has been returned from.
Idle == op = "none"

Indexed(name, k, n, outcomes) ==
  /\ \E r \in outcomes : ret' = r
  /\ op' = name
  /\ kind' = k
  /\ arg' = n
  /\ UNCHANGED <<debug, lexVars, ioVars, quadVars>>

ExodusVertex ==
  /\ Idle
  /\ \E k \in Kinds, n \in 0 .. MaxIndex :
       Indexed("exodusii_vertex_to_deal_vertex", k, n,
               exodusii_vertex_to_deal_vertex(debug, k, n))

ExodusFace ==
  /\ Idle
  /\ \E k \in Kinds, n \in 0 .. MaxIndex :
       Indexed("exodusii_face_to_deal_face", k, n,
               exodusii_face_to_deal_face(debug, k, n))

UnvVertex ==
  /\ Idle
  /\ \E k \in Kinds, n \in 0 .. MaxIndex :
       Indexed("unv_vertex_to_deal_vertex", k, n,
               unv_vertex_to_deal_vertex(debug, k, n))

VtkVertex ==
  /\ Idle
  /\ \E k \in Kinds, n \in 0 .. MaxIndex :
       Indexed("vtk_vertex_to_deal_vertex", k, n,
               vtk_vertex_to_deal_vertex(debug, k, n))

CellToString ==
  /\ Idle
  /\ \E k \in Kinds : Indexed("to_string", k, 0, to_string(debug, k))

VtkLinearType ==
  /\ Idle
  /\ \E k \in Kinds : Indexed("vtk_linear_type", k, 0, vtk_linear_type(debug, k))

VtkQuadraticType ==
  /\ Idle
  /\ \E k \in Kinds :
       Indexed("vtk_quadratic_type", k, 0, vtk_quadratic_type(debug, k))

VtkLagrangeType ==
  /\ Idle
  /\ \E k \in Kinds :
       Indexed("vtk_lagrange_type", k, 0, vtk_lagrange_type(debug, k))

GmshElementType ==
  /\ Idle
  /\ \E k \in Kinds :
       Indexed("gmsh_element_type", k, 0, gmsh_element_type(debug, k))

\* The caller takes the result (or the exception) of the call; the object
\* the call was made on goes out of scope.
Return ==
  /\ op # "none"
  /\ op' = "none"
  /\ kind' = Invalid
  /\ arg' = 0
  /\ ret' = Returned(0)
  /\ node' = <<>>
  /\ npd' = <<>>
  /\ legacy' = FALSE
  /\ UNCHANGED <<debug, ioVars, quadVars>>

Init == debug \in BOOLEAN /\ NoCall /\ NoLexCall /\ NoStreams /\ NoQuadratures

Next ==
  \/ Return
  \/ ExodusVertex
  \/ ExodusFace
  \/ UnvVertex
  \/ VtkVertex
  \/ CellToString
  \/ VtkLinearType
  \/ VtkQuadraticType
  \/ VtkLagrangeType
  \/ GmshElementType

Spec == Init /\ [][Next]_vars

-----------------------------------------------------------------------------
(* Calls of vtk_lexicographic_to_node_index *)

Resolutions(dim) == [1 .. dim -> 1 .. MaxNodesPerDirection]

\* the nodes of the lexicographic grid of resolution n
Grid(n) == {idx \in [1 .. Len(n) -> 0 .. MaxNodesPerDirection] :
              \A d \in 1 .. Len(n) : idx[d] <= n[d]}

Lex(name, k, idx, n, lf, outcomes) ==
  /\ \E r \in outcomes : ret' = r
  /\ op' = name
  /\ kind' = k
  /\ node' = idx
  /\ npd' = n
  /\ legacy' = lf
  /\ UNCHANGED <<debug, arg, ioVars, quadVars>>

LexIndex0 ==
  /\ Idle
  /\ \E k \in Kinds, lf \in BOOLEAN :
       Lex("vtk_lexicographic_to_node_index<0>", k, <<>>, <<>>, lf,
           vtk_lexicographic_to_node_index01(debug))

LexIndex1 ==
  /\ Idle
  /\ \E k \in Kinds, lf \in BOOLEAN, n \in Resolutions(1) : \E idx \in Grid(n) :
       Lex("vtk_lexicographic_to_node_index<1>", k, idx, n, lf,
           vtk_lexicographic_to_node_index01(debug))

LexIndex2 ==
  /\ Idle
  /\ \E k \in Kinds, lf \in BOOLEAN, n \in Resolutions(2) : \E idx \in Grid(n) :
       Lex("vtk_lexicographic_to_node_index<2>", k, idx, n, lf,
           vtk_lexicographic_to_node_index_2(debug, k, idx, n))

LexIndex3 ==
  /\ Idle
  /\ \E k \in Kinds, lf \in BOOLEAN, n \in Resolutions(3) : \E idx \in Grid(n) :
       Lex("vtk_lexicographic_to_node_index<3>", k, idx, n, lf,
           vtk_lexicographic_to_node_index_3(debug, k, idx, n, lf))

LexNext == LexIndex0 \/ LexIndex1 \/ LexIndex2 \/ LexIndex3 \/ Return

SpecLex == Init /\ [][LexNext]_vars

-----------------------------------------------------------------------------
(* Calls of all the functions of a cell that keep nothing between calls *)

CallsNext == Next \/ LexNext

SpecCalls == Init /\ [][CallsNext]_vars

-----------------------------------------------------------------------------
(* ReferenceCell::get_default_mapping, get_default_linear_mapping,         *)
(* get_gauss_type_quadrature and get_nodal_type_quadrature, called by one  *)
(* thread in one instantiation <dim> of the templates                      *)

\* the template argument dim
TemplateDims == 0 .. 3

\* degree and n_points_1D are drawn from 1 .. MaxDegree
MaxDegree == 2

\* the dimension is compared only for a concrete kind
AssertDimension_bad(dbg, dim, k) ==
  IF ~dbg THEN "none"
  ELSE IF k \notin ConcreteKinds THEN "ExcNotImplemented"
  ELSE "none"

\* AssertDimension(dim, get_dimension()): only the debug build evaluates it;
\* get_dimension() of a tag that is no concrete kind fails by itself.
AssertDimension(dbg, dim, k) ==
  IF ~dbg THEN "none"
  ELSE IF k \notin ConcreteKinds THEN "ExcNotImplemented"
  ELSE IF dim = get_dimension(k) THEN "none"
  ELSE "ExcDimensionMismatch"

get_default_mapping(dbg, dim, k, degree) ==
  LET check == AssertDimension(dbg, dim, k)
  IN
  IF check # "none" THEN {Thrown(check)}
  ELSE IF is_hyper_cube(k) THEN {Returned(Object("MappingQ", "", degree))}
  ELSE IF is_simplex(k)
  THEN {Returned(Object("MappingFE", "FE_SimplexP", degree))}
  ELSE IF k = Pyramid
  THEN {Returned(Object("MappingFE", "FE_PyramidP", degree))}
  ELSE IF k = Wedge
  THEN {Returned(Object("MappingFE", "FE_WedgeP", degree))}
  ELSE AssertFalse(dbg, Object("MappingQ", "", degree))

\* the simplex branch is tested before the hyper-cube branch
get_gauss_type_quadrature_bad(dbg, dim, k, n_points_1D) ==
  LET check == AssertDimension(dbg, dim, k)
  IN
  IF check # "none" THEN {Thrown(check)}
  ELSE IF is_simplex(k) THEN {Returned(Object("QGaussSimplex", "", n_points_1D))}
  ELSE IF is_hyper_cube(k) THEN {Returned(Object("QGauss", "", n_points_1D))}
  ELSE IF k = Pyramid THEN {Returned(Object("QGaussPyramid", "", n_points_1D))}
  ELSE IF k = Wedge THEN {Returned(Object("QGaussWedge", "", n_points_1D))}
  ELSE AssertFalse(dbg, Object("Quadrature", "", 0))

get_gauss_type_quadrature(dbg, dim, k, n_points_1D) ==
  LET check == AssertDimension(dbg, dim, k)
  IN
  IF check # "none" THEN {Thrown(check)}
  ELSE IF is_hyper_cube(k) THEN {Returned(Object("QGauss", "", n_points_1D))}
  ELSE IF is_simplex(k) THEN {Returned(Object("QGaussSimplex", "", n_points_1D))}
  ELSE IF k = Pyramid THEN {Returned(Object("QGaussPyramid", "", n_points_1D))}
  ELSE IF k = Wedge THEN {Returned(Object("QGaussWedge", "", n_points_1D))}
  ELSE AssertFalse(dbg, Object("Quadrature", "", 0))

\* the finite element the function-local static mapping of a branch is made of
LinearElement(k) ==
  CASE Branch(k) = "simplex" -> "FE_SimplexP"
    [] Branch(k) = "pyramid" -> "FE_PyramidP"
    [] Branch(k) = "wedge" -> "FE_WedgeP"

\* get_default_linear_mapping with the linear mappings as they are in
\* mappings: the result (a reference) and the linear mappings afterwards. A
\* function-local static is constructed by the first call that reaches it.
get_default_linear_mapping(dbg, dim, k, mappings) ==
  LET check == AssertDimension(dbg, dim, k)
      s == LinearStaticOf(dim, k)
  IN
  IF check # "none" THEN [ret |-> Thrown(check), mapping |-> mappings]
  ELSE IF Branch(k) = "dummy" /\ dbg
  THEN [ret |-> Thrown("ExcNotImplemented"), mapping |-> mappings]
  ELSE [ret |-> Returned(s),
        mapping |-> IF mappings[s] = <<>>
                    THEN [mappings EXCEPT
                            ![s] = <<Object("MappingFE", LinearElement(k), 1)>>]
                    ELSE mappings]

\* what the static of a branch is initialized with: create_quadrature(*this),
\* or nothing for dummy, which is default-constructed
InitialQuadrature(k) ==
  IF Branch(k) = "dummy" THEN [points |-> <<>>] ELSE create_quadrature(k)

\* get_nodal_type_quadrature called by the only thread, with the statics as
\* they are in g (guards), st (storage) and rn (runs): the result (a
\* reference) and the statics afterwards.
get_nodal_type_quadrature(dbg, dim, k, g, st, rn) ==
  LET check == AssertDimension(dbg, dim, k)
      s == StaticOf(dim, k)
      same(r) == [ret |-> r, guard |-> g, storage |-> st, runs |-> rn]
  IN
  IF check # "none" THEN same(Thrown(check))
  ELSE IF Branch(k) = "dummy" /\ dbg THEN same(Thrown("ExcNotImplemented"))
  ELSE IF AtStatic(g[s]) = "ret" THEN same(Returned(s))
  ELSE [ret |-> Returned(s),
        guard |-> [g EXCEPT ![s] = "done"],
        storage |-> [st EXCEPT ![s] = <<InitialQuadrature(k)>>],
        runs |-> [rn EXCEPT ![s] = @ + 1]]

\* the instantiations whose statics the program has
Instantiated ==
  {d \in TemplateDims : \A k \in Kinds : StaticOf(d, k) \in DOMAIN guard}

\* a call of instantiation <dim> on a cell of kind k
Facade(name, k, dim, r) ==
  /\ op' = name
  /\ kind' = k
  /\ arg' = dim
  /\ ret' = r
  /\ UNCHANGED <<debug, lexVars, ioVars, thread>>

\* the mapping made for a branch is kept in the static of that branch
DefaultMapping_bad ==
  /\ Idle
  /\ \E k \in Kinds, dim \in Instantiated, degree \in 1 .. MaxDegree :
       \E r \in get_default_mapping(debug, dim, k, degree) :
         /\ Facade("get_default_mapping", k, dim, r)
         /\ mapping' = IF r.exc = "none"
                       THEN [mapping EXCEPT ![LinearStaticOf(dim, k)] = <<r.val>>]
                       ELSE mapping
         /\ UNCHANGED <<guard, storage, runs>>

DefaultMapping ==
  /\ Idle
  /\ \E k \in Kinds, dim \in Instantiated, degree \in 1 .. MaxDegree :
       \E r \in get_default_mapping(debug, dim, k, degree) :
         /\ Facade("get_default_mapping", k, dim, r)
         /\ UNCHANGED <<guard, storage, runs, mapping>>

DefaultLinearMapping ==
  /\ Idle
  /\ \E k \in Kinds, dim \in Instantiated :
       LET done == get_default_linear_mapping(debug, dim, k, mapping)
       IN  /\ Facade("get_default_linear_mapping", k, dim, done.ret)
           /\ mapping' = done.mapping
           /\ UNCHANGED <<guard, storage, runs>>

GaussTypeQuadrature ==
  /\ Idle
  /\ \E k \in Kinds, dim \in Instantiated, n_points_1D \in 1 .. MaxDegree :
       \E r \in get_gauss_type_quadrature(debug, dim, k, n_points_1D) :
         /\ Facade("get_gauss_type_quadrature", k, dim, r)
         /\ UNCHANGED <<guard, storage, runs, mapping>>

NodalTypeQuadrature ==
  /\ Idle
  /\ \E k \in Kinds, dim \in Instantiated :
       LET done == get_nodal_type_quadrature(debug, dim, k, guard, storage, runs)
       IN  /\ Facade("get_nodal_type_quadrature", k, dim, done.ret)
           /\ guard' = done.guard
           /\ storage' = done.storage
           /\ runs' = done.runs
           /\ UNCHANGED mapping

\* the statics of one instantiation <dim>
QuadratureStaticsOf(dim) == {StaticOf(dim, k) : k \in Kinds}

LinearStaticsOf(dim) == {LinearStaticOf(dim, k) : k \in Kinds}

\* a program with the functions of one instantiation <dim>, before any call
FacadeInit ==
  /\ debug \in BOOLEAN
  /\ NoCall
  /\ NoLexCall
  /\ NoStreams
  /\ NoThreads
  /\ \E dim \in TemplateDims :
       StaticsAtStart(QuadratureStaticsOf(dim), LinearStaticsOf(dim))

FacadeNext ==
  \/ Return
  \/ DefaultMapping
  \/ DefaultLinearMapping
  \/ GaussTypeQuadrature
  \/ NodalTypeQuadrature

SpecFacade == FacadeInit /\ [][FacadeNext]_vars

-----------------------------------------------------------------------------
(* Calls of every function of a cell other than get_nodal_type_quadrature, *)
(* in a program with one instantiation <dim> of the templates              *)

FrameNext ==
  \/ CallsNext
  \/ DefaultMapping
  \/ DefaultLinearMapping
  \/ GaussTypeQuadrature

SpecFrame == FacadeInit /\ [][FrameNext]_vars

-----------------------------------------------------------------------------
(* Calls of nodal_type_quadrature() from several threads *)

\* Thread t calls nodal_type_quadrature() on a cell of kind k with dim the
\* dimension of k, so that AssertDimension holds, and reaches the static of
\* its branch.
QuadCall(t) ==
  /\ thread[t].pc = "idle"
  /\ \E k \in ConcreteKinds :
       LET s == StaticOf(get_dimension(k), k)
           to == AtStatic(guard[s])
       IN  /\ thread' = [thread EXCEPT ![t] = [pc |-> to, kind |-> k, ref |-> s]]
           /\ guard' = IF to = "init" THEN [guard EXCEPT ![s] = "busy"] ELSE guard
  /\ UNCHANGED <<debug, callVars, lexVars, ioVars, storage, runs, mapping>>

\* The initializer runs: create_quadrature(*this) is constructed in the
\* storage of the static, the initialization is marked complete and the
\* reference is returned.
QuadConstruct(t) ==
  /\ thread[t].pc = "init"
  /\ storage' = [storage EXCEPT ![thread[t].ref] = <<create_quadrature(thread[t].kind)>>]
  /\ runs' = [runs EXCEPT ![thread[t].ref] = @ + 1]
  /\ guard' = [guard EXCEPT ![thread[t].ref] = "done"]
  /\ thread' = [thread EXCEPT ![t].pc = "ret"]
  /\ UNCHANGED <<debug, callVars, lexVars, ioVars, mapping>>

\* A waiting thread goes on when the initialization is complete.
QuadWake(t) ==
  /\ thread[t].pc = "wait"
  /\ guard[thread[t].ref] = "done"
  /\ thread' = [thread EXCEPT ![t].pc = "ret"]
  /\ UNCHANGED <<debug, callVars, lexVars, ioVars, guard, storage, runs, mapping>>

\* The caller is done with the reference it received.
QuadReturn(t) ==
  /\ thread[t].pc = "ret"
  /\ thread' = [thread EXCEPT ![t] = [pc |-> "idle", kind |-> Invalid, ref |-> <<>>]]
  /\ UNCHANGED <<debug, callVars, lexVars, ioVars, guard, storage, runs, mapping>>

QuadNext ==
  \E t \in Threads :
    \/ QuadCall(t)
    \/ QuadConstruct(t)
    \/ QuadWake(t)
    \/ QuadReturn(t)

SpecQuad == Init /\ [][QuadNext]_vars

-----------------------------------------------------------------------------
(* operator<<(std::ostream &, const ReferenceCell &) and                   *)
(* operator>>(std::istream &, ReferenceCell &)                             *)

Digit == <<"0", "1", "2", "3", "4", "5", "6", "7", "8", "9">>

IsDigit(c) == \E d \in 1 .. 10 : Digit[d] = c

DigitValue(c) == (CHOOSE d \in 1 .. 10 : Digit[d] = c) - 1

\* std::ostream::operator<<(unsigned int): the decimal digits of n
RECURSIVE Decimal(_)
Decimal(n) ==
  IF n < 10 THEN <<Digit[n + 1]>>
  ELSE Decimal(n \div 10) \o <<Digit[(n % 10) + 1]>>

\* the tag is put out as a character: std::ostream::operator<<(unsigned char)
FormatTag_bad(k) == IF k = Vertex THEN <<"\\0">> ELSE <<"\\x">>

\* out << static_cast<unsigned int>(reference_cell.kind)
FormatTag(k) == Decimal(k)

\* operator<<: AssertThrow is checked in every build
WriteTag(stream, k) ==
  IF stream.fail
  THEN [stream |-> stream, exc |-> "ExcIO"]
  ELSE [stream |-> [stream EXCEPT !.text = @ \o FormatTag(k)],
        exc |-> "none"]

\* the first position at or after p (counted from 0) that holds no white space
RECURSIVE SkipWhitespace(_, _)
SkipWhitespace(text, p) ==
  IF p < Len(text) /\ text[p + 1] = " " THEN SkipWhitespace(text, p + 1) ELSE p

\* the end of the run of digits that starts at p
RECURSIVE DigitsEnd(_, _)
DigitsEnd(text, p) ==
  IF p < Len(text) /\ IsDigit(text[p + 1]) THEN DigitsEnd(text, p + 1) ELSE p

\* the number the digits text[from + 1 .. to] spell
RECURSIVE DigitsNumber(_, _, _)
DigitsNumber(text, from, to) ==
  IF to = from THEN 0
  ELSE 10 * DigitsNumber(text, from, to - 1) + DigitValue(text[to])

\* What the uninitialized "unsigned int value" may hold when the extraction
\* ends before it stores anything (undefined behaviour).
UninitializedValue == {0, 8, 255}

\* std::istream::operator>>(unsigned int &) on a stream that has not failed:
\* the stream afterwards and the values "value" may hold. The texts of this
\* model spell numbers below 2^31, so that no extraction overflows.
Extract(stream) ==
  LET p == SkipWhitespace(stream.text, stream.rpos)
      q == DigitsEnd(stream.text, p)
  IN  IF p >= Len(stream.text)
      THEN \* the end of the stream: failbit, and value is not written
           [stream |-> [stream EXCEPT !.rpos = p, !.fail = TRUE],
            values |-> UninitializedValue]
      ELSE IF q = p
      THEN \* no digit: failbit, and value is set to 0
           [stream |-> [stream EXCEPT !.rpos = p, !.fail = TRUE],
            values |-> {0}]
      ELSE [stream |-> [stream EXCEPT !.rpos = q],
            values |-> {DigitsNumber(stream.text, p, q)}]

\* static_cast<decltype(reference_cell.kind)>(value), kind being std::uint8_t
ToKind(value) == value % 256

\* the condition of the Assert of lines 834 to 846
IsValidKind(k) == k \in Kinds

\* the state of the stream is not looked at before the extraction: on a
\* failed stream the extraction stores nothing and the uninitialized value is
\* converted
ReadTag_bad(dbg, stream, target) ==
  LET got == IF stream.fail
             THEN [stream |-> stream, values |-> UninitializedValue]
             ELSE Extract(stream)
  IN  {[stream |-> got.stream,
        cell |-> ToKind(value),
        exc |-> IF dbg /\ ~IsValidKind(ToKind(value))
                THEN "ExcMessage" ELSE "none"] : value \in got.values}

\* operator>>: what the stream and the cell may be afterwards, and the
\* exception thrown
ReadTag(dbg, stream, target) ==
  IF stream.fail
  THEN {[stream |-> stream, cell |-> target, exc |-> "ExcIO"]}
  ELSE LET got == Extract(stream)
       IN  {[stream |-> got.stream,
             cell |-> ToKind(value),
             exc |-> IF dbg /\ ~IsValidKind(ToKind(value))
                     THEN "ExcMessage" ELSE "none"] : value \in got.values}

\* texts from elsewhere that an input stream may hold
ExternalTexts ==
  {<<>>, <<"8">>, <<"2", "5", "6">>, <<"x">>, <<"7", " ", "3">>, <<" ", "5">>}

\* a cell is written to the output stream
Write ==
  /\ Len(wrote) < MaxWrites
  /\ inp.text = <<>>
  /\ \E k \in Kinds :
       LET done == WriteTag(out, k)
       IN  /\ out' = done.stream
           /\ wrote' = IF done.exc = "none" THEN Append(wrote, k) ELSE wrote
           /\ op' = "operator<<"
           /\ kind' = k
           /\ arg' = 0
           /\ ret' = [val |-> 0, exc |-> done.exc]
  /\ UNCHANGED <<debug, lexVars, inp, cell, quadVars>>

\* the text written is read back: std::istringstream in(out.str())
Reopen ==
  /\ out.text # <<>>
  /\ inp.text = <<>>
  /\ inp' = [text |-> out.text, rpos |-> 0, fail |-> FALSE]
  /\ op' = "istringstream"
  /\ kind' = Invalid
  /\ arg' = 0
  /\ ret' = Returned(0)
  /\ UNCHANGED <<debug, lexVars, out, cell, wrote, quadVars>>

\* a cell is read from the input stream
Read ==
  /\ \E done \in ReadTag(debug, inp, cell) :
       /\ inp' = done.stream
       /\ cell' = done.cell
       /\ ret' = [val |-> 0, exc |-> done.exc]
  /\ op' = "operator>>"
  /\ kind' = cell
  /\ arg' = inp.rpos
  /\ UNCHANGED <<debug, lexVars, out, wrote, quadVars>>

\* an output stream, good or failed, and either nothing to read yet or an
\* input stream, good or failed, over a text from elsewhere; the cell to
\* read into holds any tag
IOInit ==
  /\ debug \in BOOLEAN
  /\ NoCall
  /\ NoLexCall
  /\ out \in [text : {<<>>}, fail : BOOLEAN]
  /\ inp \in [text : ExternalTexts, rpos : {0}, fail : BOOLEAN]
  /\ cell \in Kinds
  /\ wrote = <<>>
  /\ NoQuadratures

IONext == Write \/ Reopen \/ Read

SpecIO == IOInit /\ [][IONext]_vars

-----------------------------------------------------------------------------
(* Properties of the index translations and of the type codes (under Spec) *)

VertexMaps ==
  {"exodusii_vertex_to_deal_vertex", "unv_vertex_to_deal_vertex",
   "vtk_vertex_to_deal_vertex"}

Translations == VertexMaps \cup {"exodusii_face_to_deal_face"}

\* the kinds a translation has a table or an identity branch for
SupportedKinds(name) ==
  CASE name = "exodusii_vertex_to_deal_vertex" ->
         ConcreteKinds \ {Vertex}
    [] name = "exodusii_face_to_deal_face" -> ConcreteKinds
    [] name = "unv_vertex_to_deal_vertex" ->
         {Line, Quadrilateral, Hexahedron}
    [] name = "vtk_vertex_to_deal_vertex" -> ConcreteKinds

TableSize(name, k) == IF name \in VertexMaps THEN n_vertices(k) ELSE n_faces(k)

\* what the translation called name may produce for index n of kind k
Translate(name, k, n) ==
  CASE name = "exodusii_vertex_to_deal_vertex" ->
         exodusii_vertex_to_deal_vertex(debug, k, n)
    [] name = "exodusii_face_to_deal_face" ->
         exodusii_face_to_deal_face(debug, k, n)
    [] name = "unv_vertex_to_deal_vertex" ->
         unv_vertex_to_deal_vertex(debug, k, n)
    [] name = "vtk_vertex_to_deal_vertex" ->
         vtk_vertex_to_deal_vertex(debug, k, n)

InRangeTranslation ==
  /\ op \in Translations
  /\ kind \in SupportedKinds(op)
  /\ arg < TableSize(op, kind)

\* C1: for every supported (format, kind) pair the translation of an index
\* in [0, size) returns normally an index in [0, size), and no other index
\* of [0, size) is translated to the same output; size is n_vertices of the
\* kind for the vertex maps and n_faces for the face map.
C1_TranslationIsBijection ==
  InRangeTranslation =>
    /\ ret.exc = "none"
    /\ ret.val \in 0 .. TableSize(op, kind) - 1
    /\ \A m \in (0 .. TableSize(op, kind) - 1) \ {arg} :
         \A other \in Translate(op, kind, m) : other.val # ret.val

C1_Witness ==
  /\ op = "exodusii_face_to_deal_face"
  /\ kind = Wedge
  /\ arg = 4
  /\ ret = Returned(1)

\* the vertex tables as the specification lists them, external to internal
ListedVertexTable(name, k) ==
  CASE name = "exodusii_vertex_to_deal_vertex" /\ k = Quadrilateral ->
         <<0, 1, 3, 2>>
    [] name = "exodusii_vertex_to_deal_vertex" /\ k = Hexahedron ->
         <<0, 1, 3, 2, 4, 5, 7, 6>>
    [] name = "exodusii_vertex_to_deal_vertex" /\ k = Wedge ->
         <<2, 1, 0, 5, 4, 3>>
    [] name = "exodusii_vertex_to_deal_vertex" /\ k = Pyramid ->
         <<0, 1, 3, 2, 4>>
    [] name = "unv_vertex_to_deal_vertex" /\ k = Quadrilateral ->
         <<1, 0, 2, 3>>
    [] name = "unv_vertex_to_deal_vertex" /\ k = Hexahedron ->
         <<6, 7, 5, 4, 2, 3, 1, 0>>
    [] name = "vtk_vertex_to_deal_vertex" /\ k = Quadrilateral ->
         <<0, 1, 3, 2>>
    [] name = "vtk_vertex_to_deal_vertex" /\ k = Pyramid ->
         <<0, 1, 3, 2, 4>>
    [] name = "vtk_vertex_to_deal_vertex" /\ k = Hexahedron ->
         <<0, 1, 3, 2, 4, 5, 7, 6>>
    [] OTHER -> [v \in 1 .. n_vertices(k) |-> v - 1]

\* C4: every in-range call of a vertex map on a supported kind returns the
\* entry of the listed table (Exodus Quadrilateral, Hexahedron, Wedge,
\* Pyramid; UNV Quadrilateral, Hexahedron; VTK Quadrilateral, Pyramid,
\* Hexahedron), and the index itself for every other supported pair.
C4_VertexMapsAreTheListedTables ==
  (InRangeTranslation /\ op \in VertexMaps) =>
    ret = Returned(ListedVertexTable(op, kind)[arg + 1])

C4_Witness ==
  /\ op = "unv_vertex_to_deal_vertex"
  /\ kind = Hexahedron
  /\ arg = 7
  /\ ret = Returned(0)

\* the Exodus face tables as the specification lists them
ListedFaceTable(k) ==
  CASE k = Quadrilateral -> <<2, 1, 3, 0>>
    [] k = Tetrahedron -> <<1, 3, 2, 0>>
    [] k = Hexahedron -> <<2, 1, 3, 0, 4, 5>>
    [] k = Wedge -> <<3, 4, 2, 0, 1>>
    [] k = Pyramid -> <<3, 2, 4, 1, 0>>
    [] k \in {Line, Triangle} -> [f \in 1 .. n_faces(k) |-> f - 1]

\* C5: exodusii_face_to_deal_face returns, for every face index below
\* n_faces of a Quadrilateral, Tetrahedron, Hexahedron, Wedge or Pyramid,
\* that entry of the listed table, and the index itself for Line and Triangle.
C5_ExodusFaceMapIsTheListedTable ==
  (/\ op = "exodusii_face_to_deal_face"
   /\ kind \in ConcreteKinds \ {Vertex}
   /\ arg < n_faces(kind)) =>
    ret = Returned(ListedFaceTable(kind)[arg + 1])

C5_Witness ==
  /\ op = "exodusii_face_to_deal_face"
  /\ kind = Tetrahedron
  /\ arg = 1
  /\ ret = Returned(3)

TypeCodes ==
  {"vtk_linear_type", "vtk_quadratic_type", "vtk_lagrange_type",
   "gmsh_element_type"}

\* the codes as the specification lists them; -1 where it lists none
ListedCode(name, k) ==
  CASE name = "vtk_linear_type" ->
         (CASE k = Vertex -> 1 [] k = Line -> 3 [] k = Triangle -> 5
            [] k = Quadrilateral -> 9 [] k = Tetrahedron -> 10
            [] k = Hexahedron -> 12 [] k = Wedge -> 13 [] k = Pyramid -> 14
            [] k = Invalid -> invalid_unsigned_int)
    [] name = "vtk_quadratic_type" ->
         (CASE k = Line -> 21 [] k = Triangle -> 22 [] k = Quadrilateral -> 23
            [] k = Tetrahedron -> 24 [] k = Hexahedron -> 25
            [] k = Wedge -> 26 [] k = Pyramid -> 27 [] OTHER -> -1)
    [] name = "vtk_lagrange_type" ->
         (CASE k = Line -> 68 [] k = Triangle -> 69 [] k = Quadrilateral -> 70
            [] k = Tetrahedron -> 71 [] k = Hexahedron -> 72
            [] k = Wedge -> 73 [] k = Pyramid -> 74 [] OTHER -> -1)
    [] name = "gmsh_element_type" ->
         (CASE k = Line -> 1 [] k = Triangle -> 2 [] k = Quadrilateral -> 3
            [] k = Tetrahedron -> 4 [] k = Hexahedron -> 5 [] k = Wedge -> 6
            [] k = Pyramid -> 7 [] k = Vertex -> 15 [] OTHER -> -1)

\* the kinds the specification lists a code for
ListedKinds(name) ==
  CASE name = "vtk_linear_type" -> Kinds
    [] name \in {"vtk_quadratic_type", "vtk_lagrange_type"} ->
         ConcreteKinds \ {Vertex}
    [] name = "gmsh_element_type" -> ConcreteKinds

TypeCode(name, k) ==
  CASE name = "vtk_linear_type" -> vtk_linear_type(debug, k)
    [] name = "vtk_quadratic_type" -> vtk_quadratic_type(debug, k)
    [] name = "vtk_lagrange_type" -> vtk_lagrange_type(debug, k)
    [] name = "gmsh_element_type" -> gmsh_element_type(debug, k)

\* C6: each type-code function returns the listed code for each listed kind
\* (the invalid sentinel for vtk_linear_type of Invalid); within one table no
\* two concrete kinds get the same code, and no concrete kind gets the
\* invalid sentinel.
C6_TypeCodesAreTheListedCodes ==
  (op \in TypeCodes) =>
    /\ kind \in ListedKinds(op) => ret = Returned(ListedCode(op, kind))
    /\ kind \in ConcreteKinds =>
         /\ ret.exc = "none"
         /\ ret.val # invalid_unsigned_int
         /\ \A k2 \in ConcreteKinds \ {kind} :
              \A other \in TypeCode(op, k2) : other.val # ret.val

C6_Witness ==
  /\ op = "gmsh_element_type"
  /\ kind = Pyramid
  /\ ret = Returned(7)

-----------------------------------------------------------------------------
(* Properties of vtk_lexicographic_to_node_index (under SpecLex) *)

\* a call of the 2-D function on a Quadrilateral that returned
QuadrilateralNode ==
  /\ op = "vtk_lexicographic_to_node_index<2>"
  /\ kind = Quadrilateral
  /\ ret.exc = "none"

\* a call of the 3-D function on a Hexahedron that returned
HexahedronNode ==
  /\ op = "vtk_lexicographic_to_node_index<3>"
  /\ kind = Hexahedron
  /\ ret.exc = "none"

\* the topological dimension of the entity a node lies in: the number of its
\* coordinates that are neither 0 nor the resolution (0 vertex, 1 edge,
\* 2 face, 3 body)
Stratum(idx, n) ==
  Cardinality({d \in 1 .. Len(n) : idx[d] # 0 /\ idx[d] # n[d]})

\* the index the function gives node idx in the grid of the last call
IndexOf(idx) ==
  IF Len(npd) = 2
  THEN lexicographic_to_node_index_2(idx, npd)
  ELSE lexicographic_to_node_index_3(idx, npd, legacy)

\* C7: the strata are listed from lowest to highest topological dimension:
\* every node of the same grid that lies in a higher stratum than the node
\* of the call (an edge node against a vertex, a face node against an edge
\* node, a body node against a face node) has a larger index, and every node
\* of a lower stratum a smaller one.
C7_StrataAreListedLowestFirst ==
  (QuadrilateralNode \/ HexahedronNode) =>
    \A other \in Grid(npd) :
      /\ Stratum(other, npd) > Stratum(node, npd) => IndexOf(other) > ret.val
      /\ Stratum(other, npd) < Stratum(node, npd) => IndexOf(other) < ret.val

\* an interior node of an edge of the top face of a hexahedron that also has
\* vertical edges, faces and a body
C7_Witness ==
  /\ HexahedronNode
  /\ npd = <<3, 3, 3>>
  /\ node = <<2, 3, 3>>
  /\ ret.val = 8 + 2 * 4 + 4 + 1

\* C8: on a Quadrilateral of resolution (n1, n2) the corners (0, 0),
\* (n1, 0), (n1, n2) and (0, n2) get the indices 0, 1, 2 and 3.
C8_QuadrilateralCorners ==
  QuadrilateralNode =>
    /\ node = <<0, 0>> => ret.val = 0
    /\ node = <<npd[1], 0>> => ret.val = 1
    /\ node = <<npd[1], npd[2]>> => ret.val = 2
    /\ node = <<0, npd[2]>> => ret.val = 3

C8_Witness ==
  /\ QuadrilateralNode
  /\ npd = <<1, 1>>
  /\ node = <<0, 1>>
  /\ ret.val = 3

\* an interior node of one of the four edges along the third coordinate
OnVerticalEdge(idx, n) ==
  /\ idx[1] \in {0, n[1]}
  /\ idx[2] \in {0, n[2]}
  /\ idx[3] \notin {0, n[3]}

\* C9: on a Hexahedron the index of a node that is no interior node of a
\* vertical edge is the one the function gives with the other value of
\* legacy_format.
C9_LegacyFormatOnlyOnVerticalEdges ==
  (HexahedronNode /\ ~OnVerticalEdge(node, npd)) =>
    lexicographic_to_node_index_3(node, npd, ~legacy) = ret.val

\* a corner of the top face, numbered in the legacy format
C9_Witness ==
  /\ HexahedronNode
  /\ legacy
  /\ npd = <<2, 2, 2>>
  /\ node = <<2, 2, 2>>
  /\ ret.val = 6

-----------------------------------------------------------------------------
(* Properties of the stream operators (under SpecIO) *)

\* the cell has been read from the start of a stream whose text is what one
\* operator<< produced on a good stream
ReadBackOneTag ==
  /\ op = "operator>>"
  /\ arg = 0
  /\ Len(wrote) = 1
  /\ inp.text = out.text

\* C10: when a stream that holds what operator<< wrote for one of the nine
\* valid tags is read with operator>>, whatever tag the cell read into held
\* before, the cell holds the tag written and no exception is thrown.
C10_WriteThenReadYieldsTheTag ==
  ReadBackOneTag => (cell = wrote[1] /\ ret.exc = "none" /\ ~inp.fail)

\* Invalid has been written and read back into a cell that was a Hexahedron
C10_Witness ==
  /\ ReadBackOneTag
  /\ wrote = <<Invalid>>
  /\ kind = Hexahedron
  /\ cell = Invalid
  /\ inp.text = <<"2", "5", "5">>

-----------------------------------------------------------------------------
(* Properties of nodal_type_quadrature() (under SpecQuad) *)

\* thread t has received the reference that its call returns
Holds(t) == thread[t].pc = "ret"

\* C2: however the calls of several threads interleave, create_quadrature
\* runs at most once for a static and exactly once for one whose
\* initialization is complete, no two threads run the initializer of one
\* static at the same time, a caller receives a reference only to a static
\* whose initialization is complete and whose object is constructed, and
\* callers for the same kind receive the same static.
C2_ConcurrentFirstUseConstructsOnce ==
  /\ \A s \in Statics :
       /\ runs[s] <= 1
       /\ guard[s] = "done" => runs[s] = 1
  /\ \A t1, t2 \in Threads :
       (t1 # t2 /\ thread[t1].pc = "init" /\ thread[t2].pc = "init") =>
         thread[t1].ref # thread[t2].ref
  /\ \A t \in Threads :
       Holds(t) =>
         /\ guard[thread[t].ref] = "done"
         /\ storage[thread[t].ref] # <<>>
  /\ \A t1, t2 \in Threads :
       (Holds(t1) /\ Holds(t2) /\ thread[t1].kind = thread[t2].kind) =>
         thread[t1].ref = thread[t2].ref

\* a thread that found the initialization of the hexahedron's static in
\* progress and waited, while the thread that ran it has its reference
C2_Witness ==
  \E t1, t2 \in Threads :
    /\ Holds(t1)
    /\ thread[t2].pc = "wait"
    /\ thread[t1].kind = Hexahedron
    /\ thread[t2].kind = Hexahedron
    /\ runs[thread[t1].ref] = 1

\* the points a nodal quadrature of kind k must have: the vertices of k in
\* the order of their indices
VerticesInOrder(k) == [v \in 1 .. n_vertices(k) |-> [cell |-> k, vertex |-> v - 1]]

\* C3: whatever requests came before, the quadrature a request for kind K
\* returns has as its points the n_vertices(K) vertices of K in vertex-index
\* order and has been computed once, and two requests get the same instance
\* exactly when they are for the same kind.
C3_NodalQuadratureIsMemoizedPerKind ==
  \A t \in Threads :
    Holds(t) =>
      /\ storage[thread[t].ref] # <<>>
      /\ storage[thread[t].ref][1].points = VerticesInOrder(thread[t].kind)
      /\ runs[thread[t].ref] = 1
      /\ \A t2 \in Threads :
           Holds(t2) =>
             (thread[t2].ref = thread[t].ref <=> thread[t2].kind = thread[t].kind)

\* every kind has been requested, and two requests for the Triangle hold the
\* one instance that the first of them computed
C3_Witness ==
  /\ \A s \in Statics : guard[s] = "done" /\ runs[s] = 1
  /\ \E t1, t2 \in Threads :
       /\ t1 # t2
       /\ Holds(t1)
       /\ Holds(t2)
       /\ thread[t1].kind = Triangle
       /\ thread[t2].kind = Triangle
       /\ thread[t1].ref = thread[t2].ref

-----------------------------------------------------------------------------
(* Properties of operator>> on texts from elsewhere (under SpecIO) *)

\* operator>> has been called on a stream that had not failed and that held
\* digits at the position read from
ReadDigits ==
  /\ op = "operator>>"
  /\ ret.exc # "ExcIO"
  /\ DigitsEnd(inp.text, SkipWhitespace(inp.text, arg)) >
       SkipWhitespace(inp.text, arg)

\* the unsigned integer those digits delivered
DeliveredNumber ==
  DigitsNumber(inp.text, SkipWhitespace(inp.text, arg),
               DigitsEnd(inp.text, SkipWhitespace(inp.text, arg)))

\* C11: when operator>> reads from a good stream an unsigned integer that is
\* not the value of one of the nine valid tags, the validation fails: the
\* call does not return normally.
C11_OutOfSetIntegerFailsValidation ==
  (ReadDigits /\ DeliveredNumber \notin Kinds) => ret.exc = "ExcMessage"

\* C12: operator<< called on a stream that has failed throws ExcIO and leaves
\* the stream as it was; operator>> called on a stream that has failed throws
\* ExcIO, consumes nothing and leaves the tag of the cell as it was.
C12_FailedStreamIsReportedAndUntouched ==
  [][/\ (op' = "operator<<" /\ out.fail) =>
          (ret'.exc = "ExcIO" /\ out' = out /\ wrote' = wrote)
     /\ (op' = "operator>>" /\ inp.fail) =>
          (ret'.exc = "ExcIO" /\ inp' = inp /\ cell' = cell)]_vars

\* operator>> has thrown ExcIO on a failed stream that holds "8": nothing is
\* consumed and the cell is still the Hexahedron it was
C12_Witness ==
  /\ op = "operator>>"
  /\ ret.exc = "ExcIO"
  /\ inp = [text |-> <<"8">>, rpos |-> 0, fail |-> TRUE]
  /\ cell = Hexahedron

-----------------------------------------------------------------------------
(* Properties of the failing calls of the translations (under Spec) *)

\* a translation has been called on a concrete kind with an index that is
\* not below n_vertices() (vertex maps) or n_faces() (face map) of the kind
OutOfRangeTranslation ==
  /\ op \in Translations
  /\ kind \in ConcreteKinds
  /\ arg >= TableSize(op, kind)

\* C13 as stated: every translation called with an index out of range
\* fails with the index-range exception and returns no index.
C13_OutOfRangeIndexFails ==
  OutOfRangeTranslation => ret.exc = "ExcIndexRange"

\* C13, amended: in a debug build every translation called with an index out
\* of range fails with the index-range exception, whatever the kind's branch
\* of the dispatch would do, and returns no index.
C13_OutOfRangeIndexFailsInDebug ==
  (debug /\ OutOfRangeTranslation) => ret.exc = "ExcIndexRange"

\* a debug build has refused face 5 of the Wedge, for which the array of the
\* Wedge has a sixth slot
C13_Witness ==
  /\ debug
  /\ ret.exc = "ExcIndexRange"
  /\ op = "exodusii_face_to_deal_face"
  /\ kind = Wedge
  /\ arg = 5

-----------------------------------------------------------------------------
(* Properties of the calls on unsupported kinds (under SpecCalls) *)

LexNames ==
  {"vtk_lexicographic_to_node_index<0>", "vtk_lexicographic_to_node_index<1>",
   "vtk_lexicographic_to_node_index<2>", "vtk_lexicographic_to_node_index<3>"}

\* the kinds for which the function called name has no table and no branch
UnsupportedKinds(name) ==
  CASE name = "exodusii_vertex_to_deal_vertex" -> {Vertex, Invalid}
    [] name = "unv_vertex_to_deal_vertex" ->
         Kinds \ {Line, Quadrilateral, Hexahedron}
    [] name = "vtk_vertex_to_deal_vertex" -> {Invalid}
    [] name = "gmsh_element_type" -> {Invalid}
    [] name = "vtk_lexicographic_to_node_index<0>" -> Kinds
    [] name = "vtk_lexicographic_to_node_index<1>" -> Kinds
    [] name = "vtk_lexicographic_to_node_index<2>" -> Kinds \ {Quadrilateral}
    [] name = "vtk_lexicographic_to_node_index<3>" -> Kinds \ {Hexahedron}
    [] OTHER -> {}

\* a conversion has been called on a kind it does not support, with an index
\* that is in range where the kind has a range
UnsupportedCombination ==
  /\ op \in VertexMaps \cup {"gmsh_element_type"} \cup LexNames
  /\ kind \in UnsupportedKinds(op)
  /\ (op \in VertexMaps /\ kind # Invalid) => arg < n_vertices(kind)

\* C14 as stated: a conversion called on a kind it has no table or branch
\* for fails with the not-implemented exception and returns no value.
C14_UnsupportedCombinationFails ==
  UnsupportedCombination => ret.exc = "ExcNotImplemented"

\* C14, amended: in a debug build a conversion called on a kind it has no
\* table or branch for fails with the not-implemented exception and returns
\* no value.
C14_UnsupportedCombinationFailsInDebug ==
  (debug /\ UnsupportedCombination) => ret.exc = "ExcNotImplemented"

\* a debug build has refused vertex 1 of a Triangle in
\* unv_vertex_to_deal_vertex
C14_Witness ==
  /\ debug
  /\ op = "unv_vertex_to_deal_vertex"
  /\ kind = Triangle
  /\ arg = 1
  /\ ret.exc = "ExcNotImplemented"

-----------------------------------------------------------------------------
(* Properties of the mapping and quadrature selection (under SpecFacade) *)

Selectors ==
  {"get_default_mapping", "get_default_linear_mapping",
   "get_gauss_type_quadrature"}

\* the object a call returned, or returned a reference to
ResultObject ==
  IF op = "get_default_linear_mapping" THEN mapping[ret.val][1] ELSE ret.val

\* the provider family an object belongs to
Family(object) ==
  CASE object.type \in {"MappingQ", "StaticMappingQ1::mapping", "QGauss"} ->
         "tensor-product"
    [] object.of = "FE_SimplexP" \/ object.type = "QGaussSimplex" -> "simplex"
    [] object.of = "FE_PyramidP" \/ object.type = "QGaussPyramid" -> "pyramid"
    [] object.of = "FE_WedgeP" \/ object.type = "QGaussWedge" -> "wedge"
    [] OTHER -> "none"

\* the one family of each concrete kind; Vertex and Line, which are
\* hyper-cubes and simplices at once, belong to the tensor-product family
FamilyOfKind(k) ==
  CASE k \in {Vertex, Line, Quadrilateral, Hexahedron} -> "tensor-product"
    [] k \in {Triangle, Tetrahedron} -> "simplex"
    [] k = Pyramid -> "pyramid"
    [] k = Wedge -> "wedge"

\* C15: called on a concrete kind with the dimension of the kind,
\* get_default_mapping, get_default_linear_mapping and
\* get_gauss_type_quadrature each return an object of the one family of the
\* kind: tensor-product for the hyper-cubes, simplex for Triangle and
\* Tetrahedron, pyramid for the Pyramid, wedge for the Wedge; so the three
\* agree on every kind.
C15_SelectorsAgreeOnTheFamily ==
  (op \in Selectors /\ kind \in ConcreteKinds /\ arg = get_dimension(kind)) =>
    /\ ret.exc = "none"
    /\ Family(ResultObject) = FamilyOfKind(kind)
    /\ FamilyOfKind(kind) = "tensor-product" <=> is_hyper_cube(kind)

\* get_gauss_type_quadrature has returned a QGauss rule for the Line, which
\* is a simplex too
C15_Witness ==
  /\ op = "get_gauss_type_quadrature"
  /\ kind = Line
  /\ arg = 1
  /\ ret = Returned(Object("QGauss", "", 2))

FacadeNames == Selectors \cup {"get_nodal_type_quadrature"}

\* the step is a call of one of the four functions on the Invalid kind or on
\* a kind whose dimension is not the dim of the instantiation called
MismatchedCall ==
  /\ op = "none"
  /\ op' \in FacadeNames
  /\ kind' = Invalid \/ get_dimension(kind') # arg'

\* the call of the step throws; where the kind is concrete it throws the
\* exception of the dimension check, not that of the dispatch; no static is
\* initialized
RefusedCall ==
  /\ ret'.exc # "none"
  /\ kind' # Invalid => ret'.exc = "ExcDimensionMismatch"
  /\ UNCHANGED <<guard, storage, runs, mapping>>

\* C16 as stated: a call of get_default_mapping, get_default_linear_mapping,
\* get_gauss_type_quadrature or get_nodal_type_quadrature on the Invalid kind
\* or with a dim that is not the dimension of the kind throws, returns no
\* object and initializes no static.
C16_MismatchIsRefused ==
  [][MismatchedCall => RefusedCall]_vars

\* C16, amended: in a debug build such a call throws, returns no object and
\* initializes no static.
C16_MismatchIsRefusedInDebug ==
  [][(debug /\ MismatchedCall) => RefusedCall]_vars

\* a debug build has refused get_nodal_type_quadrature<3> on a Triangle, and
\* no static of the instantiation is initialized
C16_Witness ==
  /\ debug
  /\ op = "get_nodal_type_quadrature"
  /\ kind = Triangle
  /\ arg = 3
  /\ ret.exc = "ExcDimensionMismatch"
  /\ \A s \in DOMAIN guard : guard[s] = "uninit"

-----------------------------------------------------------------------------
(* Properties of the state kept between calls (under SpecFrame) *)

\* the step is a call of a function whose name is not in the set allowed
CallOfAnother(allowed) == op = "none" /\ op' \notin allowed \cup {"none"}

\* no static, no stream and no other cell is changed by the step
NothingKept == UNCHANGED <<guard, storage, runs, mapping, ioVars, thread>>

-----------------------------------------------------------------------------
(* C19: operations on the Invalid kind *)

\* the functions whose switch has a case for Invalid that returns a value
NamesOfInvalid ==
  {"to_string", "vtk_linear_type", "vtk_quadratic_type", "vtk_lagrange_type"}

\* what those functions return for Invalid
ValueForInvalid(name) ==
  IF name = "to_string" THEN "Invalid" ELSE VTK_INVALID

\* a member function has been called on the Invalid kind
CalledOnInvalid == op # "none" /\ kind = Invalid

-----------------------------------------------------------------------------
(* C20: vtk_lexicographic_to_node_index numbers the grid without gaps *)

\* the number of nodes of the grid of resolution n
NumberOfNodes(n) ==
  LET product[d \in 0 .. Len(n)] ==
        IF d = 0 THEN 1 ELSE product[d - 1] * (n[d] + 1)
  IN  product[Len(n)]

\* the index the function gives node g in the grid of the call at hand
IndexInCall(g) ==
  IF Len(npd) = 2
  THEN lexicographic_to_node_index_2(g, npd)
  ELSE lexicographic_to_node_index_3(g, npd, legacy)

\* the call at hand is one the claim is about and has returned
NumberedCall ==
  \/ op = "vtk_lexicographic_to_node_index<2>" /\ kind = Quadrilateral
  \/ op = "vtk_lexicographic_to_node_index<3>" /\ kind = Hexahedron

\* C20: for a Quadrilateral, and for a Hexahedron with either value of
\* legacy_format, the index returned lies in [0, number of nodes), no other
\* node of the grid is given the same index, and the indices of the nodes of
\* the grid are exactly that range, also when a resolution entry is 1.
C20_LexicographicToNodeIndexIsABijection ==
  NumberedCall =>
    /\ ret.exc = "none"
    /\ ret.val = IndexInCall(node)
    /\ ret.val \in 0 .. NumberOfNodes(npd) - 1
    /\ \A g \in Grid(npd) : g # node => IndexInCall(g) # ret.val
    /\ {IndexInCall(g) : g \in Grid(npd)} = 0 .. NumberOfNodes(npd) - 1

\* a Hexahedron with resolution (1, 1, 2) in the legacy format, which has no
\* horizontal-edge, face or interior node: the node in the middle of the
\* last vertical edge has received the last of the twelve indices
C20_Witness ==
  /\ op = "vtk_lexicographic_to_node_index<3>"
  /\ kind = Hexahedron
  /\ legacy
  /\ npd = <<1, 1, 2>>
  /\ node = <<1, 1, 1>>
  /\ ret = Returned(11)

-----------------------------------------------------------------------------
(* C21: the corners of vtk_lexicographic_to_node_index against the VTK *)
(* vertex table *)

\* the lexicographic number of the corner a node sits at:
\* [i != 0] + 2 [j != 0] (+ 4 [k != 0])
LexicographicVertex(idx) ==
  LET bit[d \in 0 .. Len(idx)] ==
        IF d = 0 THEN 0
        ELSE bit[d - 1] + (IF idx[d] # 0 THEN 2 ^ (d - 1) ELSE 0)
  IN  bit[Len(idx)]

\* the call at hand returned the index of a corner of the grid
CornerNode ==
  /\ QuadrilateralNode \/ HexahedronNode
  /\ Stratum(node, npd) = 0

\* C21: vtk_vertex_to_deal_vertex applied to the index that
\* vtk_lexicographic_to_node_index returns for a corner of a Quadrilateral or
\* of a Hexahedron (with either legacy_format) returns the lexicographic
\* vertex number of that corner.
C21_CornersAgreeWithTheVtkVertexTable ==
  CornerNode =>
    vtk_vertex_to_deal_vertex(debug, kind, ret.val)
      = {Returned(LexicographicVertex(node))}

\* the corner (n1, n2, n3) of a Hexahedron in the legacy format has VTK
\* index 6, which the vertex table sends to vertex 7
C21_Witness ==
  /\ HexahedronNode
  /\ legacy
  /\ npd = <<2, 1, 2>>
  /\ node = <<2, 1, 2>>
  /\ ret.val = 6
  /\ vtk_vertex_to_deal_vertex(debug, kind, ret.val) = {Returned(7)}

-----------------------------------------------------------------------------
(* C22: the interior nodes of the vertical edges of a Hexahedron *)

\* the corners (i != 0, j != 0) in the order their vertical edges are listed
VerticalEdgeOrder(legacy_format) ==
  IF legacy_format
  THEN <<<<FALSE, FALSE>>, <<TRUE, FALSE>>, <<FALSE, TRUE>>, <<TRUE, TRUE>>>>
  ELSE <<<<FALSE, FALSE>>, <<TRUE, FALSE>>, <<TRUE, TRUE>>, <<FALSE, TRUE>>>>

\* the number of vertical edges listed before the one through the node
EdgesBefore(idx, legacy_format) ==
  CHOOSE b \in 0 .. 3 :
    VerticalEdgeOrder(legacy_format)[b + 1] = <<idx[1] # 0, idx[2] # 0>>

\* the first index after the corners and the horizontal-edge blocks
FirstVerticalIndex(n) == 8 + 4 * (n[1] - 1) + 4 * (n[2] - 1)

\* the node with the same j and k on the opposite vertical edge
AcrossI(idx, n) == <<n[1] - idx[1], idx[2], idx[3]>>

\* C22: an interior node (i, j, k) of a vertical edge of a Hexahedron gets
\* the index (first index after the horizontal-edge blocks) + (n3 - 1) *
\* (edges listed before its own) + (k - 1), the edges being listed as
\* (0,0), (n1,0), (0,n2), (n1,n2) with legacy_format and as (0,0), (n1,0),
\* (n1,n2), (0,n2) without; so the other format gives the same index where
\* j = 0 and the index of the opposite edge where j = n2, and the two formats
\* give every node the same index when n3 = 1.
C22_VerticalEdgeBlocks ==
  HexahedronNode =>
    /\ OnVerticalEdge(node, npd) =>
         /\ ret.val = FirstVerticalIndex(npd)
                        + (npd[3] - 1) * EdgesBefore(node, legacy)
                        + (node[3] - 1)
         /\ node[2] = 0 =>
              lexicographic_to_node_index_3(node, npd, ~legacy) = ret.val
         /\ node[2] # 0 =>
              lexicographic_to_node_index_3(AcrossI(node, npd), npd, ~legacy)
                = ret.val
    /\ npd[3] = 1 =>
         lexicographic_to_node_index_3(node, npd, ~legacy) = ret.val

\* the only interior node of the edge through (0, n2) of a Hexahedron of
\* resolution (1, 1, 2): that edge is the last of the four in the new format
C22_Witness ==
  /\ HexahedronNode
  /\ ~legacy
  /\ npd = <<1, 1, 2>>
  /\ node = <<0, 1, 1>>
  /\ ret.val = 11

-----------------------------------------------------------------------------
(* C23: the edge and face nodes of a Quadrilateral *)

\* the edge-interior nodes of the grid of resolution n in the order bottom
\* edge by increasing i, right edge by increasing j, top edge by increasing
\* i, left edge by increasing j
EdgeListing(n) ==
  [p \in 1 .. n[1] - 1 |-> <<p, 0>>]
    \o [p \in 1 .. n[2] - 1 |-> <<n[1], p>>]
    \o [p \in 1 .. n[1] - 1 |-> <<p, n[2]>>]
    \o [p \in 1 .. n[2] - 1 |-> <<0, p>>]

\* the place of an edge-interior node in that order, counted from 0
PlaceInListing(idx, n) ==
  CHOOSE p \in 0 .. Len(EdgeListing(n)) - 1 : EdgeListing(n)[p + 1] = idx

\* the number of edge-interior nodes
EdgeNodes(n) == 2 * (n[1] - 1) + 2 * (n[2] - 1)

\* C23: on a Quadrilateral of resolution (n1, n2) the edge-interior nodes
\* get the indices from 4 to 4 + 2(n1-1) + 2(n2-1) - 1 in the order bottom,
\* right, top, left edge, each by increasing free coordinate, and the
\* face-interior node (i, j) gets 4 + 2(n1-1) + 2(n2-1) + (i-1)
\* + (n1-1)(j-1).
C23_QuadrilateralEdgeAndFaceNodes ==
  QuadrilateralNode =>
    /\ Stratum(node, npd) = 1 =>
         /\ Len(EdgeListing(npd)) = EdgeNodes(npd)
         /\ ret.val = 4 + PlaceInListing(node, npd)
         /\ ret.val \in 4 .. 4 + EdgeNodes(npd) - 1
    /\ Stratum(node, npd) = 2 =>
         ret.val = 4 + EdgeNodes(npd)
                     + (node[1] - 1) + (npd[1] - 1) * (node[2] - 1)

\* the node of the left edge of a Quadrilateral of resolution (3, 2) is the
\* last of its six edge-interior nodes
C23_Witness ==
  /\ QuadrilateralNode
  /\ npd = <<3, 2>>
  /\ node = <<0, 1>>
  /\ ret.val = 9

====
